---- MODULE Spec2Model ----
(***************************************************************************)
(* Model of src/main.py: the UniswapV3Swap client (constructor, balance    *)
(* and allowance readers, quote reader, approval submitter, swap           *)
(* submitter) and the main() workflow, run by one or two instances         *)
(* against one Ethereum node and one signing identity.                     *)
(*                                                                         *)
(* Amounts are counted in units of Web3.to_wei(0.1, 'ether'), the amount   *)
(* main() swaps: 1 is 0.1 token, 10 is 1.0 token.                          *)
(***************************************************************************)
EXTENDS Integers, Sequences, FiniteSets, TLC

\* ---- bounds of the model ----
MaxAmountIn == 2
MaxBalance == 10
MaxAllowance == 2
MaxConcBalance == 2

\* amount_in = Web3.to_wei(0.1, 'ether') of main(), the unit of every amount here
AmountMain == 1

Procs == {1, 2}
Entries == {"main", "swap", "approve"}

None == [kind |-> "None"]
Unset == [kind |-> "unset"]
NoExc == [type |-> "none", class |-> "none", at |-> "none"]

VARIABLES
  pc,                \* position of each instance in the code
  entry,             \* the public entry point each instance runs
  amount_in,         \* the amount argument of each instance
  balance,           \* node: input-token balance of the signing identity
  allowance,         \* node: router's allowance on the input token
  chain,             \* node: the included transactions of the signing identity, in order
  sent,              \* node: every raw transaction accepted by send_raw_transaction
  nonce,             \* the nonce each instance read last
  checked,           \* the token addresses each instance has normalised successfully
  approval_receipt,  \* what approve_token returned to each instance
  receipt,           \* the swap receipt each instance obtained
  exc,               \* the exception that ended each instance
  log,               \* the log lines each instance wrote that matter here
  trace,             \* the node calls each instance made, in order
  start              \* the balance and allowance the node held when the run began

vars == <<pc, entry, amount_in, balance, allowance, chain, sent, nonce, checked,
          approval_receipt, receipt, exc, log, trace, start>>

\* ---- the node ----

\* w3.eth.get_transaction_count(address): the number of included transactions
TransactionCount == Len(chain)

\* ---- errors and their handlers ----

ConfigError(t) == [type |-> t, class |-> "config"]
ConnectError == [type |-> "ConnectionError", class |-> "connectivity"]
NodeError == [type |-> "Exception", class |-> "node"]
FundsError == [type |-> "ValueError", class |-> "funds"]

\* except-blocks an exception passes on its way out of main()
MainHandlers(p) == IF entry[p] = "main" THEN <<"Error in main execution">> ELSE <<>>

\* mutant: the except-block of swap_exact_input_single re-raises without logging
SwapHandlersSilent(p) == MainHandlers(p)

\* except-blocks an exception raised inside swap_exact_input_single's try passes
SwapHandlers(p) == <<"Error in SwapTX">> \o MainHandlers(p)

\* except-blocks around a statement of approve_token outside its try (its caller's)
ApproveCallerHandlers(p) == IF entry[p] = "approve" THEN <<>> ELSE SwapHandlers(p)

\* except-blocks an exception raised inside approve_token's try passes
ApproveHandlers(p) == <<"Error in Token Approval">> \o ApproveCallerHandlers(p)

\* except-blocks an exception raised inside get_quote's try passes
QuoteHandlers(p) == <<"Error getting quote">> \o MainHandlers(p)

\* an exception e raised at the current position leaves the instance through the
\* handlers hs, each logging and re-raising
Raise(p, hs, e) ==
  /\ pc' = [pc EXCEPT ![p] = "raised"]
  /\ exc' = [exc EXCEPT ![p] = [type |-> e.type, class |-> e.class, at |-> pc[p]]]
  /\ log' = [log EXCEPT ![p] = @ \o hs]

Goto(p, to) == pc' = [pc EXCEPT ![p] = to]

Call(p, evs) == trace' = [trace EXCEPT ![p] = @ \o evs]

\* Web3.to_checksum_address on a token address: a string that passed once passes again
ChecksumChoices(p, tok) == IF tok \in checked[p] THEN {TRUE} ELSE BOOLEAN

\* ---- UniswapV3Swap.__init__ ----

\* mutant: the connectivity check made before the config file is looked for
LoadConfigAfterConnect(p) ==
  /\ pc[p] = "load_config"
  /\ Call(p, <<"is_connected">>)
  /\ \E exists \in BOOLEAN :
       IF exists
         THEN Goto(p, "connect") /\ UNCHANGED <<exc, log>>
         ELSE Raise(p, MainHandlers(p), ConfigError("FileNotFoundError"))
  /\ UNCHANGED <<entry, amount_in, balance, allowance, chain, sent, nonce, checked,
                 approval_receipt, receipt, start>>

\* _load_config: the config file is there or FileNotFoundError
LoadConfig(p) ==
  /\ pc[p] = "load_config"
  /\ \E exists \in BOOLEAN :
       IF exists
         THEN Goto(p, "connect") /\ UNCHANGED <<exc, log>>
         ELSE Raise(p, MainHandlers(p), ConfigError("FileNotFoundError"))
  /\ UNCHANGED <<entry, amount_in, balance, allowance, chain, sent, nonce, checked,
                 approval_receipt, receipt, trace, start>>

\* w3.is_connected(), ConnectionError when it answers False
Connect(p) ==
  /\ pc[p] = "connect"
  /\ Call(p, <<"is_connected">>)
  /\ \E connected \in BOOLEAN :
       IF connected
         THEN Goto(p, "chain_id") /\ UNCHANGED <<exc, log>>
         ELSE Raise(p, MainHandlers(p), ConnectError)
  /\ UNCHANGED <<entry, amount_in, balance, allowance, chain, sent, nonce, checked,
                 approval_receipt, receipt, start>>

\* account.from_key and the log line reading w3.eth.chain_id
ChainId(p) ==
  /\ pc[p] = "chain_id"
  /\ Call(p, <<"chain_id">>)
  /\ \E ok \in BOOLEAN :
       IF ok
         THEN Goto(p, "addresses") /\ UNCHANGED <<exc, log>>
         ELSE Raise(p, MainHandlers(p), NodeError)
  /\ UNCHANGED <<entry, amount_in, balance, allowance, chain, sent, nonce, checked,
                 approval_receipt, receipt, start>>

\* to_checksum_address of the router address, then of the quoter address
ContractAddresses(p) ==
  /\ pc[p] = "addresses"
  /\ \E router_ok \in BOOLEAN, quoter_ok \in BOOLEAN :
       IF router_ok /\ quoter_ok
         THEN Goto(p, "abi_router") /\ UNCHANGED <<exc, log>>
         ELSE Raise(p, MainHandlers(p), ConfigError("ValueError"))
  /\ UNCHANGED <<entry, amount_in, balance, allowance, chain, sent, nonce, checked,
                 approval_receipt, receipt, trace, start>>

\* the shapes an ABI descriptor file can have
AbiFiles == {[shape |-> "missing"], [shape |-> "list", abi |-> "entries"],
             [shape |-> "dict", abi |-> "entries"], [shape |-> "dict_without_abi"],
             [shape |-> "scalar"]}

\* _load_abi: the list itself, the list under 'abi', or an error
LoadAbiResult(file) ==
  CASE file.shape = "missing" -> [ok |-> FALSE, error |-> ConfigError("FileNotFoundError")]
    [] file.shape = "list" -> [ok |-> TRUE, abi |-> file.abi]
    [] file.shape = "dict" -> [ok |-> TRUE, abi |-> file.abi]
    [] OTHER -> [ok |-> FALSE, error |-> ConfigError("ValueError")]

AbiNext(at) ==
  CASE at = "abi_router" -> "abi_quoter"
    [] at = "abi_quoter" -> "abi_erc20"
    [] at = "abi_erc20" -> "entry"

\* one of the three _load_abi calls of __init__
LoadAbi(p) ==
  /\ pc[p] \in {"abi_router", "abi_quoter", "abi_erc20"}
  /\ \E file \in AbiFiles :
       IF LoadAbiResult(file).ok
         THEN Goto(p, AbiNext(pc[p])) /\ UNCHANGED <<exc, log>>
         ELSE Raise(p, MainHandlers(p), LoadAbiResult(file).error)
  /\ UNCHANGED <<entry, amount_in, balance, allowance, chain, sent, nonce, checked,
                 approval_receipt, receipt, trace, start>>

\* the contract objects are bound and the caller goes on to its entry point
Enter(p) ==
  /\ pc[p] = "entry"
  /\ Goto(p, CASE entry[p] = "main" -> "m_balance"
               [] entry[p] = "swap" -> "s_norm"
               [] entry[p] = "approve" -> "a_norm")
  /\ UNCHANGED <<entry, amount_in, balance, allowance, chain, sent, nonce, checked,
                 approval_receipt, receipt, exc, log, trace, start>>

\* ---- check_token_balance, check_allowance ----

BalanceOfCall(tok) == IF tok = "in" THEN "balanceOf(token_in)" ELSE "balanceOf(token_out)"

\* the three contract reads of check_token_balance, in order
CheckTokenBalanceCalls(tok) == <<BalanceOfCall(tok), "symbol", "decimals">>

\* the three contract reads of check_allowance, in order
CheckAllowanceCalls == <<"allowance", "symbol", "decimals">>

\* a run of node calls: all answer, or the k-th raises and the rest are not made
ReadOutcomes(calls) ==
  {[ok |-> TRUE, made |-> calls]} \cup
  {[ok |-> FALSE, made |-> SubSeq(calls, 1, k)] : k \in 1..Len(calls)}

\* check_token_balance(tok) called under the handlers hs, going on at position to
CheckTokenBalance(p, tok, hs, to) ==
  \E valid \in ChecksumChoices(p, tok) :
    IF ~valid
      THEN Raise(p, hs, ConfigError("ValueError")) /\ UNCHANGED <<checked, trace>>
      ELSE /\ checked' = [checked EXCEPT ![p] = @ \cup {tok}]
           /\ \E o \in ReadOutcomes(CheckTokenBalanceCalls(tok)) :
                /\ Call(p, o.made)
                /\ IF o.ok
                     THEN Goto(p, to) /\ UNCHANGED <<exc, log>>
                     ELSE Raise(p, hs, NodeError)

\* ---- main(), up to the swap ----

\* uniswap.check_token_balance(token_in)
MainBalance(p) ==
  /\ pc[p] = "m_balance"
  /\ CheckTokenBalance(p, "in", MainHandlers(p), "quote")
  /\ UNCHANGED <<entry, amount_in, balance, allowance, chain, sent, nonce,
                 approval_receipt, receipt, start>>

\* get_quote: both addresses normalised, then the quoter's read-only call
GetQuote(p) ==
  /\ pc[p] = "quote"
  /\ \E vin \in ChecksumChoices(p, "in"), vout \in ChecksumChoices(p, "out") :
       IF ~(vin /\ vout)
         THEN /\ Raise(p, QuoteHandlers(p), ConfigError("ValueError"))
              /\ checked' = [checked EXCEPT ![p] = IF vin THEN @ \cup {"in"} ELSE @]
              /\ UNCHANGED trace
         ELSE /\ checked' = [checked EXCEPT ![p] = @ \cup {"in", "out"}]
              /\ Call(p, <<"quoteExactInputSingle">>)
              /\ \E ok \in BOOLEAN :
                   IF ok
                     THEN Goto(p, "s_norm") /\ UNCHANGED <<exc, log>>
                     ELSE Raise(p, QuoteHandlers(p), NodeError)
  /\ UNCHANGED <<entry, amount_in, balance, allowance, chain, sent, nonce,
                 approval_receipt, receipt, start>>

\* ---- swap_exact_input_single, up to the approval ----

\* both token addresses normalised
SwapNormalize(p) ==
  /\ pc[p] = "s_norm"
  /\ \E vin \in ChecksumChoices(p, "in"), vout \in ChecksumChoices(p, "out") :
       IF ~(vin /\ vout)
         THEN /\ Raise(p, SwapHandlers(p), ConfigError("ValueError"))
              /\ checked' = [checked EXCEPT ![p] = IF vin THEN @ \cup {"in"} ELSE @]
         ELSE /\ checked' = [checked EXCEPT ![p] = @ \cup {"in", "out"}]
              /\ Goto(p, "s_balance")
              /\ UNCHANGED <<exc, log>>
  /\ UNCHANGED <<entry, amount_in, balance, allowance, chain, sent, nonce,
                 approval_receipt, receipt, trace, start>>

\* mutant: the balance test off by one
InsufficientBalanceOffByOne(bal, amount) == bal + 1 < amount

\* if balance < amount_in
InsufficientBalance(bal, amount) == bal < amount

\* the balance read and the insufficient-funds test
SwapBalance(p) ==
  /\ pc[p] = "s_balance"
  /\ \E o \in ReadOutcomes(CheckTokenBalanceCalls("in")) :
       /\ Call(p, o.made)
       /\ IF ~o.ok
            THEN Raise(p, SwapHandlers(p), NodeError)
            ELSE IF InsufficientBalance(balance, amount_in[p])
                   THEN Raise(p, SwapHandlers(p), FundsError)
                   ELSE Goto(p, "a_norm") /\ UNCHANGED <<exc, log>>
  /\ UNCHANGED <<entry, amount_in, balance, allowance, chain, sent, nonce, checked,
                 approval_receipt, receipt, start>>

\* ---- approve_token ----

\* where the caller of approve_token goes on
AfterApprove(p) == IF entry[p] = "approve" THEN "returned" ELSE "s_deadline"

\* the address normalised and the token contract bound, before the try
ApproveNormalize(p) ==
  /\ pc[p] = "a_norm"
  /\ \E valid \in ChecksumChoices(p, "in") :
       IF valid
         THEN /\ checked' = [checked EXCEPT ![p] = @ \cup {"in"}]
              /\ Goto(p, "a_allowance")
              /\ UNCHANGED <<exc, log>>
         ELSE /\ Raise(p, ApproveCallerHandlers(p), ConfigError("ValueError"))
              /\ UNCHANGED checked
  /\ UNCHANGED <<entry, amount_in, balance, allowance, chain, sent, nonce,
                 approval_receipt, receipt, trace, start>>

\* mutant: the allowance test strict
SufficientAllowanceStrict(current, amount) == current > amount

\* mutant: the allowance test always passing, so that no approval is ever sent
SufficientAllowanceAlways(current, amount) == TRUE

\* if current_allowance >= amount
SufficientAllowance(current, amount) == current >= amount

\* check_allowance, and the early return when the allowance suffices
ApproveAllowance(p) ==
  /\ pc[p] = "a_allowance"
  /\ \E o \in ReadOutcomes(CheckAllowanceCalls) :
       /\ Call(p, o.made)
       /\ IF ~o.ok
            THEN Raise(p, ApproveHandlers(p), NodeError) /\ UNCHANGED approval_receipt
            ELSE IF SufficientAllowance(allowance, amount_in[p])
                   THEN /\ approval_receipt' = [approval_receipt EXCEPT ![p] = None]
                        /\ log' = [log EXCEPT ![p] =
                                     Append(@, "Sufficient Allowance already exists")]
                        /\ Goto(p, AfterApprove(p))
                        /\ UNCHANGED exc
                   ELSE Goto(p, "a_build") /\ UNCHANGED <<exc, log, approval_receipt>>
  /\ UNCHANGED <<entry, amount_in, balance, allowance, chain, sent, nonce, checked,
                 receipt, start>>

\* mutant: the nonce kept from the previous transaction instead of being read again
NonceReadCached(p) == nonce[p]

\* mutant: the nonce read counting the transactions other instances have pending
NonceReadPending(p) ==
  TransactionCount + Cardinality({q \in Procs \ {p} : pc[q] \in {"a_wait", "s_wait"}})

\* 'nonce': w3.eth.get_transaction_count(account.address), read when the transaction is built
NonceRead(p) == TransactionCount

\* the node calls of build_transaction's argument, in order
BuildCalls == <<"get_transaction_count", "gas_price">>

\* the approve transaction is built: nonce and gas price read from the node
ApproveBuild(p) ==
  /\ pc[p] = "a_build"
  /\ \E o \in ReadOutcomes(BuildCalls) :
       /\ Call(p, o.made)
       /\ IF o.ok
            THEN /\ nonce' = [nonce EXCEPT ![p] = NonceRead(p)]
                 /\ Goto(p, "a_send")
                 /\ UNCHANGED <<exc, log>>
            ELSE Raise(p, ApproveHandlers(p), NodeError) /\ UNCHANGED nonce
  /\ UNCHANGED <<entry, amount_in, balance, allowance, chain, sent, checked,
                 approval_receipt, receipt, start>>

\* mutant: the approval asking for less than the amount
ApproveAmountShort(amount) == amount - 1

\* approve(swap_router_address, amount): the allowance the transaction asks for
ApproveAmount(amount) == amount

\* the signed approve transaction
ApproveTx(p) == [from |-> p, kind |-> "approve", nonce |-> nonce[p],
                 amount |-> ApproveAmount(amount_in[p])]

\* node: a raw transaction is taken unless its nonce is already used
NodeAccepts(tx) == tx.nonce >= TransactionCount

\* sign_transaction and send_raw_transaction of the approval
ApproveSend(p) ==
  /\ pc[p] = "a_send"
  /\ Call(p, <<"send_raw_transaction">>)
  /\ \E ok \in (IF NodeAccepts(ApproveTx(p)) THEN BOOLEAN ELSE {FALSE}) :
       IF ok
         THEN /\ sent' = Append(sent, ApproveTx(p))
              /\ Goto(p, "a_wait")
              /\ UNCHANGED <<exc, log>>
         ELSE Raise(p, ApproveHandlers(p), NodeError) /\ UNCHANGED sent
  /\ UNCHANGED <<entry, amount_in, balance, allowance, chain, nonce, checked,
                 approval_receipt, receipt, start>>

\* node: a transaction is included when its nonce is the next one of the sender
NodeIncludes(tx) == tx.nonce = TransactionCount

\* node: the receipt of an included transaction
Receipt(tx, status) == [kind |-> tx.kind, from |-> tx.from, nonce |-> tx.nonce,
                        amount |-> tx.amount, status |-> status]

\* wait_for_transaction_receipt of the approval; the receipt is returned as it is
ApproveWait(p) ==
  /\ pc[p] = "a_wait"
  /\ Call(p, <<"wait_for_transaction_receipt">>)
  /\ \/ /\ NodeIncludes(ApproveTx(p))
        /\ \E status \in {0, 1} :
             /\ chain' = Append(chain, Receipt(ApproveTx(p), status))
             /\ allowance' = IF status = 1 THEN ApproveTx(p).amount ELSE allowance
             /\ approval_receipt' = [approval_receipt EXCEPT ![p] =
                                       Receipt(ApproveTx(p), status)]
        /\ log' = [log EXCEPT ![p] = Append(@, "Approval TX Successful")]
        /\ Goto(p, AfterApprove(p))
        /\ UNCHANGED exc
     \/ /\ Raise(p, ApproveHandlers(p), NodeError)
        /\ UNCHANGED <<chain, allowance, approval_receipt>>
  /\ UNCHANGED <<entry, amount_in, balance, sent, nonce, checked, receipt, start>>

\* ---- swap_exact_input_single, after the approval ----

\* get_block('latest') for the deadline, and the fee tier
SwapDeadline(p) ==
  /\ pc[p] = "s_deadline"
  /\ Call(p, <<"get_block">>)
  /\ \E ok \in BOOLEAN :
       IF ok
         THEN Goto(p, "s_build") /\ UNCHANGED <<exc, log>>
         ELSE Raise(p, SwapHandlers(p), NodeError)
  /\ UNCHANGED <<entry, amount_in, balance, allowance, chain, sent, nonce, checked,
                 approval_receipt, receipt, start>>

\* the swap transaction is built: nonce and gas price read from the node
SwapBuild(p) ==
  /\ pc[p] = "s_build"
  /\ \E o \in ReadOutcomes(BuildCalls) :
       /\ Call(p, o.made)
       /\ IF o.ok
            THEN /\ nonce' = [nonce EXCEPT ![p] = NonceRead(p)]
                 /\ Goto(p, "s_send")
                 /\ UNCHANGED <<exc, log>>
            ELSE Raise(p, SwapHandlers(p), NodeError) /\ UNCHANGED nonce
  /\ UNCHANGED <<entry, amount_in, balance, allowance, chain, sent, checked,
                 approval_receipt, receipt, start>>

\* the signed exactInputSingle transaction ("amountIn": amount_in)
SwapTx(p) == [from |-> p, kind |-> "swap", nonce |-> nonce[p], amount |-> amount_in[p]]

\* sign_transaction and send_raw_transaction of the swap
SwapSend(p) ==
  /\ pc[p] = "s_send"
  /\ Call(p, <<"send_raw_transaction">>)
  /\ \E ok \in (IF NodeAccepts(SwapTx(p)) THEN BOOLEAN ELSE {FALSE}) :
       IF ok
         THEN /\ sent' = Append(sent, SwapTx(p))
              /\ Goto(p, "s_wait")
              /\ UNCHANGED <<exc, log>>
         ELSE Raise(p, SwapHandlers(p), NodeError) /\ UNCHANGED sent
  /\ UNCHANGED <<entry, amount_in, balance, allowance, chain, nonce, checked,
                 approval_receipt, receipt, start>>

\* node: the router can only pull what the sender holds and has approved
SwapStatuses(amount) ==
  IF allowance >= amount /\ balance >= amount THEN {0, 1} ELSE {0}

\* wait_for_transaction_receipt of the swap
SwapWait(p) ==
  /\ pc[p] = "s_wait"
  /\ Call(p, <<"wait_for_transaction_receipt">>)
  /\ \/ /\ NodeIncludes(SwapTx(p))
        /\ \E status \in SwapStatuses(SwapTx(p).amount) :
             /\ chain' = Append(chain, Receipt(SwapTx(p), status))
             /\ balance' = IF status = 1 THEN balance - SwapTx(p).amount ELSE balance
             /\ allowance' = IF status = 1 THEN allowance - SwapTx(p).amount ELSE allowance
             /\ receipt' = [receipt EXCEPT ![p] = Receipt(SwapTx(p), status)]
        /\ Goto(p, "s_status")
        /\ UNCHANGED <<exc, log>>
     \/ /\ Raise(p, SwapHandlers(p), NodeError)
        /\ UNCHANGED <<chain, balance, allowance, receipt>>
  /\ UNCHANGED <<entry, amount_in, sent, nonce, checked, approval_receipt, start>>

\* where the caller of swap_exact_input_single goes on
AfterSwap(p) == IF entry[p] = "main" THEN "m_status" ELSE "returned"

\* mutant: the status test inverted
StatusSuccessInverted(r) == r.status = 0

\* if receipt['status'] == 1
StatusSuccess(r) == r.status = 1

\* the branch on the receipt's status, with its log lines
SwapStatus(p) ==
  /\ pc[p] = "s_status"
  /\ IF StatusSuccess(receipt[p])
       THEN /\ log' = [log EXCEPT ![p] = Append(@, "SwapTX Successful")]
            /\ Goto(p, "s_post_in")
       ELSE /\ log' = [log EXCEPT ![p] = @ \o <<"SwapTX Failed!", "TX Receipt">>]
            /\ Goto(p, AfterSwap(p))
  /\ UNCHANGED <<entry, amount_in, balance, allowance, chain, sent, nonce, checked,
                 approval_receipt, receipt, exc, trace, start>>

\* self.check_token_balance(token_in) after a successful swap
SwapPostIn(p) ==
  /\ pc[p] = "s_post_in"
  /\ CheckTokenBalance(p, "in", SwapHandlers(p), "s_post_out")
  /\ UNCHANGED <<entry, amount_in, balance, allowance, chain, sent, nonce,
                 approval_receipt, receipt, start>>

\* self.check_token_balance(token_out) after a successful swap, then return receipt
SwapPostOut(p) ==
  /\ pc[p] = "s_post_out"
  /\ CheckTokenBalance(p, "out", SwapHandlers(p), AfterSwap(p))
  /\ UNCHANGED <<entry, amount_in, balance, allowance, chain, sent, nonce,
                 approval_receipt, receipt, start>>

\* ---- main(), after the swap ----

\* main's own branch on receipt['status']
MainStatus(p) ==
  /\ pc[p] = "m_status"
  /\ Goto(p, IF StatusSuccess(receipt[p]) THEN "m_post_in" ELSE "done")
  /\ UNCHANGED <<entry, amount_in, balance, allowance, chain, sent, nonce, checked,
                 approval_receipt, receipt, exc, log, trace, start>>

\* uniswap.check_token_balance(token_in) of main's success branch
MainPostIn(p) ==
  /\ pc[p] = "m_post_in"
  /\ CheckTokenBalance(p, "in", MainHandlers(p), "m_post_out")
  /\ UNCHANGED <<entry, amount_in, balance, allowance, chain, sent, nonce,
                 approval_receipt, receipt, start>>

\* uniswap.check_token_balance(token_out) of main's success branch
MainPostOut(p) ==
  /\ pc[p] = "m_post_out"
  /\ CheckTokenBalance(p, "out", MainHandlers(p), "done")
  /\ UNCHANGED <<entry, amount_in, balance, allowance, chain, sent, nonce,
                 approval_receipt, receipt, start>>

\* ---- specifications ----

InitLocals ==
  /\ chain = <<>>
  /\ sent = <<>>
  /\ nonce = [p \in Procs |-> 0]
  /\ checked = [p \in Procs |-> {}]
  /\ approval_receipt = [p \in Procs |-> Unset]
  /\ receipt = [p \in Procs |-> Unset]
  /\ exc = [p \in Procs |-> NoExc]
  /\ log = [p \in Procs |-> <<>>]
  /\ trace = [p \in Procs |-> <<>>]
  /\ start = [balance |-> balance, allowance |-> allowance]

\* one instance, entered at main() or at one of the two submitters
Init ==
  /\ pc = [p \in Procs |-> IF p = 1 THEN "load_config" ELSE "idle"]
  /\ \E e \in Entries : entry = [p \in Procs |-> IF p = 1 THEN e ELSE "main"]
  /\ \E a \in 0..MaxAmountIn :
       amount_in = [p \in Procs |-> IF entry[p] = "main" THEN AmountMain ELSE a]
  /\ balance \in 0..MaxBalance
  /\ allowance \in 0..MaxAllowance
  /\ InitLocals

\* two instances of main() on the same signing identity
InitConc ==
  /\ pc = [p \in Procs |-> "load_config"]
  /\ entry = [p \in Procs |-> "main"]
  /\ amount_in = [p \in Procs |-> AmountMain]
  /\ balance \in 0..MaxConcBalance
  /\ allowance \in 0..MaxAllowance
  /\ InitLocals

Next ==
  \E p \in Procs :
    \/ LoadConfig(p)
    \/ Connect(p)
    \/ ChainId(p)
    \/ ContractAddresses(p)
    \/ LoadAbi(p)
    \/ Enter(p)
    \/ MainBalance(p)
    \/ GetQuote(p)
    \/ SwapNormalize(p)
    \/ SwapBalance(p)
    \/ ApproveNormalize(p)
    \/ ApproveAllowance(p)
    \/ ApproveBuild(p)
    \/ ApproveSend(p)
    \/ ApproveWait(p)
    \/ SwapDeadline(p)
    \/ SwapBuild(p)
    \/ SwapSend(p)
    \/ SwapWait(p)
    \/ SwapStatus(p)
    \/ SwapPostIn(p)
    \/ SwapPostOut(p)
    \/ MainStatus(p)
    \/ MainPostIn(p)
    \/ MainPostOut(p)

Spec == Init /\ [][Next]_vars

SpecConc == InitConc /\ [][Next]_vars

\* ---- what the claims speak of ----

Running == {p \in Procs : pc[p] # "idle"}

\* positions inside swap_exact_input_single, approve_token included
ApprovePositions == {"a_norm", "a_allowance", "a_build", "a_send", "a_wait"}
SwapTail == {"s_deadline", "s_build", "s_send", "s_wait", "s_status", "s_post_in",
             "s_post_out"}
SwapPositions == {"s_norm", "s_balance"} \cup ApprovePositions \cup SwapTail

\* the node calls an instance makes before it enters its submitter
PreEntryCalls(p) ==
  <<"is_connected", "chain_id">> \o
  (IF entry[p] = "main"
     THEN CheckTokenBalanceCalls("in") \o <<"quoteExactInputSingle">>
     ELSE <<>>)

\* the node calls made since the instance entered its submitter
SubmitterCalls(p) ==
  IF Len(trace[p]) <= Len(PreEntryCalls(p)) THEN <<>>
  ELSE SubSeq(trace[p], Len(PreEntryCalls(p)) + 1, Len(trace[p]))

TxCalls == {"get_transaction_count", "gas_price", "send_raw_transaction",
            "wait_for_transaction_receipt"}

Has(seq, S) == \E i \in 1..Len(seq) : seq[i] \in S

Indices(seq, S) == {i \in 1..Len(seq) : seq[i] \in S}

\* the transactions an instance submitted, by kind
SentBy(p, kind) == {i \in 1..Len(sent) : sent[i].from = p /\ sent[i].kind = kind}

\* the node calls an instance made after its last wait_for_transaction_receipt
AfterLastWait(p) ==
  LET w == Indices(trace[p], {"wait_for_transaction_receipt"})
      last == CHOOSE i \in w : \A j \in w : j <= i
  IN IF w = {} THEN <<>> ELSE SubSeq(trace[p], last + 1, Len(trace[p]))

\* the balance reads among a sequence of node calls, in order
BalanceReads(seq) ==
  LET F[i \in 0..Len(seq)] ==
        IF i = 0 THEN <<>>
        ELSE IF seq[i] \in {BalanceOfCall("in"), BalanceOfCall("out")}
               THEN Append(F[i - 1], seq[i]) ELSE F[i - 1]
  IN F[Len(seq)]

\* the balance reads an instance made after it obtained the swap receipt
PostSwapReads(p) == IF receipt[p] = Unset THEN <<>> ELSE BalanceReads(AfterLastWait(p))

\* swap_exact_input_single has returned its receipt to the caller
SwapReturned(p) ==
  \/ entry[p] = "swap" /\ pc[p] = "returned"
  \/ entry[p] = "main" /\ pc[p] \in {"m_status", "m_post_in", "m_post_out", "done"}
  \/ entry[p] = "main" /\ pc[p] = "raised" /\ exc[p].at \in {"m_post_in", "m_post_out"}

\* C1: whenever the balance is below the requested amount, swap_exact_input_single
\* never gets past its balance test, builds, signs or submits no transaction, and
\* the insufficient-funds ValueError it raises (logged by its handler) is raised
\* right after the balance read, the only node interaction of the call.
C1_InsufficientFundsRejected ==
  \A p \in Running :
    /\ (entry[p] # "approve" /\ start.balance < amount_in[p]) =>
         /\ pc[p] \notin (ApprovePositions \cup SwapTail \cup
                          {"m_status", "m_post_in", "m_post_out", "done", "returned"})
         /\ SentBy(p, "approve") = {} /\ SentBy(p, "swap") = {}
         /\ ~Has(trace[p], TxCalls)
         /\ pc[p] = "raised" => exc[p].at \notin (ApprovePositions \cup SwapTail)
    /\ exc[p].class = "funds" =>
         /\ start.balance < amount_in[p]
         /\ pc[p] = "raised"
         /\ exc[p].type = "ValueError"
         /\ SubmitterCalls(p) = CheckTokenBalanceCalls("in")
         /\ Has(log[p], {"Error in SwapTX"})
         /\ sent = <<>>

C1_Witness ==
  \E p \in Running :
    /\ exc[p].class = "funds"
    /\ start.balance = 1 /\ amount_in[p] = 2
    /\ trace[p] = PreEntryCalls(p) \o CheckTokenBalanceCalls("in")

\* C2: with a current allowance A >= B, approve_token(token, B) builds and submits
\* no transaction and, once its allowance read has answered, returns None.
C2_SufficientAllowanceNoTransaction ==
  \A p \in Running :
    start.allowance >= amount_in[p] =>
      /\ pc[p] \notin {"a_build", "a_send", "a_wait"}
      /\ SentBy(p, "approve") = {}
      /\ exc[p].at \notin {"a_build", "a_send", "a_wait"}
      /\ approval_receipt[p] \in {Unset, None}
      /\ (pc[p] \in SwapTail \/ SwapReturned(p) \/ (entry[p] = "approve" /\ pc[p] = "returned"))
           => approval_receipt[p] = None
      /\ approval_receipt[p] = None =>
           /\ Has(log[p], {"Sufficient Allowance already exists"})
           /\ (pc[p] \in {"s_deadline", "s_build"} \/ entry[p] = "approve")
                => ~Has(trace[p], TxCalls)

C2_Witness ==
  \E p \in Running :
    /\ entry[p] = "approve" /\ pc[p] = "returned"
    /\ start.allowance = 2 /\ amount_in[p] = 1
    /\ approval_receipt[p] = None
    /\ sent = <<>>

\* C3: with a current allowance A < B, approve_token(token, B) submits at most one
\* approval transaction, and when it returns it has submitted exactly one, asking
\* for an allowance of at least B, and returns the receipt of that transaction,
\* which the node has included.
C3_InsufficientAllowanceOneApproval ==
  \A p \in Running :
    start.allowance < amount_in[p] =>
      /\ Cardinality(SentBy(p, "approve")) <= 1
      /\ \A i \in SentBy(p, "approve") : sent[i].amount >= amount_in[p]
      /\ approval_receipt[p] # None
      /\ approval_receipt[p] # Unset =>
           /\ Cardinality(SentBy(p, "approve")) = 1
           /\ \A i \in SentBy(p, "approve") :
                /\ approval_receipt[p].nonce = sent[i].nonce
                /\ approval_receipt[p].amount = sent[i].amount
                /\ approval_receipt[p].kind = "approve"
           /\ approval_receipt[p].nonce < Len(chain)
           /\ chain[approval_receipt[p].nonce + 1] = approval_receipt[p]
      /\ (pc[p] \in SwapTail \/ (entry[p] = "approve" /\ pc[p] = "returned"))
           => approval_receipt[p] # Unset

C3_Witness ==
  \E p \in Running :
    /\ entry[p] = "approve" /\ pc[p] = "returned"
    /\ start.allowance = 1 /\ amount_in[p] = 2
    /\ approval_receipt[p] \notin {Unset, None}
    /\ Len(sent) = 1 /\ sent[1].amount = 2

\* C4 (as claimed): whenever approve_token has returned normally the router's
\* allowance is at least the amount, so the swap transaction is built, signed and
\* submitted in a state where allowance >= amount_in.
C4_AllowanceEnsuredOnReturn ==
  \A p \in Running :
    (\/ pc[p] \in {"s_deadline", "s_build", "s_send", "s_wait"}
     \/ entry[p] = "approve" /\ pc[p] = "returned")
      => allowance >= amount_in[p]

\* C5 (as claimed): once the run is over, a swap receipt with status = success has
\* been followed by exactly two balance reads (input token, then output token), a
\* receipt with status = failure by none.
C5_TwoReadsPerRun ==
  \A p \in Running :
    (pc[p] \in {"done", "returned"} /\ receipt[p] # Unset) =>
      PostSwapReads(p) = IF receipt[p].status = 1
                           THEN <<BalanceOfCall("in"), BalanceOfCall("out")>>
                           ELSE <<>>

\* C5 (amended): when swap_exact_input_single returns, a success receipt has been
\* followed by exactly two balance reads (input, then output) and a failure receipt
\* by none; when main() ends, it has repeated the two reads after a success receipt
\* (four in all) and made none after a failure receipt.
C5_TwoReadsPerSubmitterTwoMoreInMain ==
  \A p \in Running :
    /\ (SwapReturned(p) /\ pc[p] \in {"m_status", "returned"}) =>
         PostSwapReads(p) = IF receipt[p].status = 1
                              THEN <<BalanceOfCall("in"), BalanceOfCall("out")>>
                              ELSE <<>>
    /\ (entry[p] = "main" /\ pc[p] = "done") =>
         PostSwapReads(p) = IF receipt[p].status = 1
                              THEN <<BalanceOfCall("in"), BalanceOfCall("out"),
                                     BalanceOfCall("in"), BalanceOfCall("out")>>
                              ELSE <<>>
    /\ (receipt[p] # Unset /\ receipt[p].status = 0) => PostSwapReads(p) = <<>>

C5_Witness ==
  \E p \in Running :
    /\ entry[p] = "main" /\ pc[p] = "done"
    /\ receipt[p] # Unset /\ receipt[p].status = 1
    /\ Len(PostSwapReads(p)) = 4

\* C6: an exception raised at any step of swap_exact_input_single is logged by its
\* handler and ends the call as an exception, while a swap receipt with status =
\* failure never becomes an exception: the call returns that receipt, the one the
\* node produced, and the caller ends normally.
C6_TwoFailureChannels ==
  \A p \in Running :
    /\ (entry[p] # "approve" /\ pc[p] = "raised" /\ exc[p].at \in SwapPositions) =>
         /\ Has(log[p], {"Error in SwapTX"})
         /\ exc[p].class # "none"
         /\ ~SwapReturned(p)
         /\ exc[p].at \in {"a_allowance", "a_build", "a_send", "a_wait"}
              => Has(log[p], {"Error in Token Approval"})
    /\ (receipt[p] # Unset /\ receipt[p].status = 0) =>
         /\ pc[p] \in {"s_status", "m_status", "done", "returned"}
         /\ exc[p] = NoExc
         /\ ~Has(log[p], {"Error in SwapTX", "Error in main execution"})
         /\ receipt[p].nonce < Len(chain)
         /\ chain[receipt[p].nonce + 1] = receipt[p]
         /\ pc[p] # "s_status" => Has(log[p], {"SwapTX Failed!"})

C6_Witness ==
  \E p \in Running :
    /\ entry[p] = "swap" /\ pc[p] = "returned"
    /\ receipt[p] # Unset /\ receipt[p].status = 0
    /\ exc[p] = NoExc

\* the end-to-end scenario: main() with a balance of 1.0 token, the 0.1 token it
\* swaps, and no allowance
Scenario(p) ==
  /\ entry[p] = "main"
  /\ amount_in[p] = AmountMain
  /\ start.balance = 10 * AmountMain
  /\ start.allowance = 0

\* the node calls of the scenario up to the swap receipt
ScenarioCalls ==
  <<"is_connected", "chain_id">> \o CheckTokenBalanceCalls("in") \o
  <<"quoteExactInputSingle">> \o CheckTokenBalanceCalls("in") \o CheckAllowanceCalls \o
  BuildCalls \o <<"send_raw_transaction", "wait_for_transaction_receipt">> \o
  <<"get_block">> \o BuildCalls \o
  <<"send_raw_transaction", "wait_for_transaction_receipt">>

ScenarioSent ==
  <<[from |-> 1, kind |-> "approve", nonce |-> 0, amount |-> AmountMain],
    [from |-> 1, kind |-> "swap", nonce |-> 1, amount |-> AmountMain]>>

\* C7 (as claimed): the scenario run that ends with a success receipt has submitted
\* one approval, then one swap after the approval's receipt, both with success
\* receipts, and made exactly two balance reads after the swap.
C7_ScenarioTwoReads ==
  (Scenario(1) /\ pc[1] = "done" /\ receipt[1].status = 1) =>
    /\ sent = ScenarioSent
    /\ approval_receipt[1].status = 1
    /\ trace[1] = ScenarioCalls \o CheckTokenBalanceCalls("in") \o
                  CheckTokenBalanceCalls("out")

\* C7 (amended): every completed scenario run has submitted exactly one approval
\* (nonce n) and then one swap (nonce n + 1), in the order balance read, quote,
\* balance read, allowance read, approval, swap; when the swap receipt is a success
\* the approval receipt is one too and four balance reads follow (input and output
\* by swap_exact_input_single, input and output again by main), otherwise none.
C7_ScenarioFourReads ==
  (Scenario(1) /\ pc[1] = "done") =>
    /\ sent = ScenarioSent
    /\ Len(chain) = 2
    /\ chain[1] = approval_receipt[1] /\ chain[2] = receipt[1]
    /\ receipt[1].status = 1 => approval_receipt[1].status = 1
    /\ trace[1] = ScenarioCalls \o
         (IF receipt[1].status = 1
            THEN CheckTokenBalanceCalls("in") \o CheckTokenBalanceCalls("out") \o
                 CheckTokenBalanceCalls("in") \o CheckTokenBalanceCalls("out")
            ELSE <<>>)

C7_Witness ==
  /\ Scenario(1) /\ pc[1] = "done"
  /\ receipt[1].status = 1 /\ approval_receipt[1].status = 1
  /\ balance = 9 * AmountMain

C9_NonceReadWithoutReservation ==
  [][\A p \in Procs :
       (pc[p] \in {"a_build", "s_build"} /\ pc'[p] \in {"a_send", "s_send"}) =>
         /\ nonce'[p] = Len(chain)
         /\ chain' = chain /\ sent' = sent
         /\ \A q \in Procs \ {p} : nonce'[q] = nonce[q] /\ pc'[q] = pc[q]]_vars

C9_Witness ==
  \E i \in 1..Len(sent), j \in 1..Len(sent) :
    /\ sent[i].from # sent[j].from
    /\ sent[i].nonce = sent[j].nonce

\* C10: an instance running alone submits at most one approval and at most one swap;
\* when it submits both, the swap's nonce was read after the approval's receipt was
\* obtained, is the approval's nonce plus one, and the two nonces differ.
C10_SwapNonceFollowsApproval ==
  \A p \in Running :
    /\ Cardinality(SentBy(p, "approve")) <= 1
    /\ Cardinality(SentBy(p, "swap")) <= 1
    /\ \A i \in SentBy(p, "approve"), j \in SentBy(p, "swap") :
         /\ i < j
         /\ sent[j].nonce = sent[i].nonce + 1
         /\ approval_receipt[p] \notin {Unset, None}
         /\ approval_receipt[p].nonce = sent[i].nonce
    /\ (pc[p] \in {"s_send", "s_wait"} /\ approval_receipt[p] \notin {Unset, None}) =>
         nonce[p] = approval_receipt[p].nonce + 1
    /\ LET g == Indices(trace[p], {"get_transaction_count"})
           w == Indices(trace[p], {"wait_for_transaction_receipt"})
       IN /\ Cardinality(g) <= 2
          /\ Cardinality(g) = 2 => \E i \in w, a \in g, b \in g : a < i /\ i < b

C10_Witness ==
  \E p \in Running :
    /\ SentBy(p, "approve") # {} /\ SentBy(p, "swap") # {}
    /\ pc[p] = "s_wait"
    /\ nonce[p] = 1

====
